---- MODULE Spec2Model ----
(***************************************************************************)
(* State-machine model of src/server.js: the tracking endpoint             *)
(* (POST /api/track), the SQLite event store it writes to, the dashboard   *)
(* aggregation (GET /api/dashboard), the four list endpoints and the       *)
(* health endpoint.                                                        *)
(*                                                                         *)
(* The sqlite3 calls are asynchronous: db.run / db.get / db.all only hand  *)
(* a statement to the store and return; the store runs it later and, when  *)
(* a callback was given, calls it with (err, result).  A statement the     *)
(* store has been handed and has not run yet is "in flight".               *)
(*                                                                         *)
(* Each table keeps the columns the queries of server.js read: id,         *)
(* timestamp and one payload column (load_time, title, form_type,          *)
(* session_id).  The other payload columns are copied from the request in  *)
(* the same way and no query looks at them.                                *)
(*                                                                         *)
(* Scheduling.  A handler or callback runs to completion (one action).     *)
(* The store may run the statements in flight in any order and at any      *)
(* time, and may fail any of them.  One read request (dashboard or list)   *)
(* is followed at a time: reads share no state with each other.  A         *)
(* response is collected by its client before the next event is taken,     *)
(* and track requests are taken up between reads (their INSERTs still run  *)
(* during reads).                                                          *)
(***************************************************************************)
EXTENDS Integers, Sequences, FiniteSets, TLC

\* ------------------------------------------------------------- bounds
\* POST /api/track requests served in one run.
MaxTrack == 2
\* Last value of the server clock (seconds).
MaxClock == 2
\* Length of a calendar day in clock seconds (scaled down).
SecondsPerDay == 2
\* Rows a table already holds when the list endpoints are examined.
Prefill == 100

\* ------------------------------------------------------------- values
\* An absent JavaScript value (undefined) or an SQL NULL is the empty
\* tuple, a present value v is <<v>>.
Null == <<>>
Some(v) == <<v>>

\* LIMIT 100 of the four list queries.
Limit == 100

Tables == {"performance_metrics", "seo_metrics", "form_submissions", "user_analytics"}

\* const validKeys = [...]
validKeys == {"dvl-media-main", "dvl-media-dev"}

\* X-API-Key headers a client may send: none, the empty string, the two
\* accepted keys, and keys that differ from an accepted one by case, by a
\* suffix or by being a prefix of it.
ApiKeys ==
    { Null, Some(""), Some("dvl-media-main"), Some("dvl-media-dev"),
      Some("DVL-MEDIA-MAIN"), Some("dvl-media-main2"), Some("dvl-media") }

\* body.type: absent, the four recognized tags, an unknown tag.
Types ==
    { Null, Some("performance"), Some("seo"), Some("form"), Some("user"),
      Some("bogus") }

EmptyMapping ==
    [shape |-> "mapping", loadTime |-> Null, title |-> Null,
     formType |-> Null, sessionId |-> Null]

\* body.data: absent or null ("undefined": reading a property of it throws),
\* a JSON scalar (a string or a number: every property read on it yields
\* undefined), or a mapping holding at most one of the fields the inserts
\* read.
Payloads ==
    { [EmptyMapping EXCEPT !.shape = "undefined"],
      [EmptyMapping EXCEPT !.shape = "scalar"],
      EmptyMapping,
      [EmptyMapping EXCEPT !.loadTime = Some(1)],
      [EmptyMapping EXCEPT !.loadTime = Some(4)],
      [EmptyMapping EXCEPT !.title = Some("Home")],
      [EmptyMapping EXCEPT !.formType = Some("contact")],
      [EmptyMapping EXCEPT !.sessionId = Some("s1")],
      [EmptyMapping EXCEPT !.sessionId = Some("s2")] }

\* Tie orders of ORDER BY timestamp: SQL leaves the order of rows with equal
\* timestamps open; "scan" keeps them in rowid order (what SQLite's sorter
\* does on a table scan), "reverse" in the opposite order.
TieOrders == {"scan", "reverse"}

VARIABLES
    db,        \* table name -> sequence of rows, in insertion (rowid) order
    queue,     \* INSERT statements handed to the store and not yet run
    now,       \* server clock, seconds
    inbox,     \* the POST /api/track request the event loop has picked up
    resp,      \* the status of the response to it, until the client has it
    log,       \* record of the track requests served (see NoLog)
    dash,      \* the GET /api/dashboard request being served
    hist,      \* reference summaries of the store at each instant of that request
    list       \* the list request being served

vars == <<db, queue, now, inbox, resp, log, dash, hist, list>>

\* ------------------------------------------------------------- the store

\* The row an INSERT creates: the AUTOINCREMENT id, the bound value in the
\* table's payload column, timestamp DEFAULT CURRENT_TIMESTAMP.
NewRow(table, id, value, ts) ==
    CASE table = "performance_metrics" ->
           [id |-> id, load_time |-> value, timestamp |-> ts]
      [] table = "seo_metrics" ->
           [id |-> id, title |-> value, timestamp |-> ts]
      [] table = "form_submissions" ->
           [id |-> id, form_type |-> value, timestamp |-> ts]
      [] table = "user_analytics" ->
           [id |-> id, session_id |-> value, timestamp |-> ts]

\* INTEGER PRIMARY KEY AUTOINCREMENT: one more than the largest id so far.
NextId(rows) == IF rows = <<>> THEN 1 ELSE rows[Len(rows)].id + 1

\* date(timestamp) = date("now")
Today(ts, clock) == ts \div SecondsPerDay = clock \div SecondsPerDay

RECURSIVE Gcd(_, _)
Gcd(a, b) == IF b = 0 THEN a ELSE Gcd(b, a % b)

\* The value of sum / n, as a fraction in lowest terms.
Ratio(sum, n) == LET g == Gcd(sum, n) IN <<sum \div g, n \div g>>

\* SELECT COUNT(*) as total, AVG(load_time) as avg_load_time
\*   FROM performance_metrics WHERE date(timestamp) = date("now")
\* The aggregates over rows lo..hi: the rows of today counted, the non-NULL
\* load times summed and counted (AVG skips NULL).
RECURSIVE PerfScan(_, _, _, _)
PerfScan(rows, lo, hi, clock) ==
    IF lo > hi
    THEN [total |-> 0, sum |-> 0, n |-> 0]
    ELSE IF lo = hi
    THEN IF ~Today(rows[lo].timestamp, clock)
         THEN [total |-> 0, sum |-> 0, n |-> 0]
         ELSE IF rows[lo].load_time = Null
              THEN [total |-> 1, sum |-> 0, n |-> 0]
              ELSE [total |-> 1, sum |-> rows[lo].load_time[1], n |-> 1]
    ELSE LET mid == (lo + hi) \div 2
             a == PerfScan(rows, lo, mid, clock)
             b == PerfScan(rows, mid + 1, hi, clock)
         IN  [total |-> a.total + b.total, sum |-> a.sum + b.sum, n |-> a.n + b.n]

\* The row db.get passes to the callback; AVG over no value is NULL.
PerfQuery(rows, clock) ==
    LET agg == PerfScan(rows, 1, Len(rows), clock)
    IN  [total |-> agg.total,
         avg_load_time |-> IF agg.n = 0 THEN Null ELSE Some(Ratio(agg.sum, agg.n))]

\* SELECT COUNT(*) as total FROM form_submissions WHERE date(timestamp) = date("now")
RECURSIVE FormScan(_, _, _, _)
FormScan(rows, lo, hi, clock) ==
    IF lo > hi
    THEN 0
    ELSE IF lo = hi
    THEN IF Today(rows[lo].timestamp, clock) THEN 1 ELSE 0
    ELSE LET mid == (lo + hi) \div 2
         IN  FormScan(rows, lo, mid, clock) + FormScan(rows, mid + 1, hi, clock)

\* FormQuery without the date filter: every form row is counted.
FormQuery_AllDays(rows, clock) == [total |-> Len(rows)]

FormQuery(rows, clock) == [total |-> FormScan(rows, 1, Len(rows), clock)]

\* SELECT COUNT(DISTINCT session_id) as unique_sessions
\*   FROM user_analytics WHERE date(timestamp) = date("now")
\* The distinct values over rows lo..hi; COUNT(DISTINCT x) skips NULL.
RECURSIVE UserScan(_, _, _, _)
UserScan(rows, lo, hi, clock) ==
    IF lo > hi
    THEN {}
    ELSE IF lo = hi
    THEN IF Today(rows[lo].timestamp, clock) /\ rows[lo].session_id # Null
         THEN {rows[lo].session_id[1]}
         ELSE {}
    ELSE LET mid == (lo + hi) \div 2
         IN  UserScan(rows, lo, mid, clock) \cup UserScan(rows, mid + 1, hi, clock)

\* UserQuery without DISTINCT: COUNT(session_id).
UserQuery_NoDistinct(rows, clock) ==
    [unique_sessions |->
        Cardinality({i \in 1..Len(rows) :
                        /\ Today(rows[i].timestamp, clock)
                        /\ rows[i].session_id # Null})]

UserQuery(rows, clock) ==
    [unique_sessions |-> Cardinality(UserScan(rows, 1, Len(rows), clock))]

\* The rows in the opposite order.
Reverse(seq) == [i \in 1..Len(seq) |-> seq[Len(seq) + 1 - i]]

\* The rows whose timestamp is t, in the tie order.  The table is scanned in
\* rowid order.
SameTimestamp(rows, t, tie) ==
    LET IsT(r) == r.timestamp = t
        scan == SelectSeq(rows, IsT)
    IN  IF tie = "scan" THEN scan ELSE Reverse(scan)

\* ORDER BY timestamp DESC over the timestamps in ts: the rows of the
\* greatest timestamp first, then those of the next one.
RECURSIVE OrderByTimestampDesc(_, _, _)
OrderByTimestampDesc(rows, ts, tie) ==
    IF ts = {} THEN <<>>
    ELSE LET t == CHOOSE x \in ts : \A y \in ts : y <= x
         IN  SameTimestamp(rows, t, tie) \o OrderByTimestampDesc(rows, ts \ {t}, tie)

\* ListQuery without LIMIT.
ListQuery_NoLimit(rows, tie) ==
    OrderByTimestampDesc(rows, {rows[i].timestamp : i \in 1..Len(rows)}, tie)

\* SELECT * FROM <table> ORDER BY timestamp DESC LIMIT 100
ListQuery(rows, tie) ==
    LET sorted == OrderByTimestampDesc(rows, {rows[i].timestamp : i \in 1..Len(rows)}, tie)
    IN  IF Len(sorted) <= Limit THEN sorted ELSE SubSeq(sorted, 1, Limit)

\* ------------------------------------------------------------- POST /api/track

\* validateApiKey without the allowlist test: any non-empty key passes.
validateApiKey_AnyKey(apiKey) ==
    ~(apiKey = Null \/ apiKey = Some(""))

\* validateApiKey: TRUE when next() is called, FALSE when it answers 401.
validateApiKey(apiKey) ==
    ~(apiKey = Null \/ apiKey = Some("") \/ apiKey[1] \notin validKeys)

Recognized == {Some("performance"), Some("seo"), Some("form"), Some("user")}

TableOf(type) ==
    CASE type = Some("performance") -> "performance_metrics"
      [] type = Some("seo") -> "seo_metrics"
      [] type = Some("form") -> "form_submissions"
      [] type = Some("user") -> "user_analytics"

\* data.<name>: undefined on a scalar, the field (or undefined) on a mapping.
Prop(data, name) == IF data.shape = "mapping" THEN data[name] ELSE Null

\* The value bound to the payload column of the table.
InsertValue(type, data) ==
    CASE type = Some("performance") -> Prop(data, "loadTime")
      [] type = Some("seo") -> Prop(data, "title")
      [] type = Some("form") -> Prop(data, "formType")
      [] type = Some("user") -> Prop(data, "sessionId")

\* trackHandler whose default case does not return: an unknown type falls
\* through to the success response.
trackHandler_FallThrough(type, data) ==
    IF type \in Recognized
    THEN IF data.shape = "undefined"
         THEN [status |-> 500, stmt |-> Null]
         ELSE [status |-> 200,
               stmt |-> Some([table |-> TableOf(type),
                              value |-> InsertValue(type, data)])]
    ELSE [status |-> 200, stmt |-> Null]

\* The route handler: the status it answers with and the INSERT it hands to
\* the store (db.run without a callback), if any.  Reading a property of an
\* undefined data throws before db.run is called; the catch answers 500.
trackHandler(type, data) ==
    IF type \in Recognized
    THEN IF data.shape = "undefined"
         THEN [status |-> 500, stmt |-> Null]
         ELSE [status |-> 200,
               stmt |-> Some([table |-> TableOf(type),
                              value |-> InsertValue(type, data)])]
    ELSE [status |-> 400, stmt |-> Null]

\* A POST /api/track request reaches the server: its X-API-Key header and
\* its parsed JSON body {type, data}.  Requests are taken up while no read
\* is in flight: the handler only queues a statement, so a request taken up
\* during a read acts on the store as one taken up just before it.  MaxTrack
\* bounds the requests that hand an INSERT to the store.
Arrive(apiKey, type, data) ==
    /\ inbox = Null
    /\ resp = Null
    /\ log.served < MaxTrack
    /\ dash.pc = "idle"
    /\ list.pc = "idle"
    /\ inbox' = Some([apiKey |-> apiKey, type |-> type, data |-> data])
    /\ UNCHANGED <<db, queue, now, resp, log, dash, hist, list>>

\* What is recorded of the track requests served: how many were handed an
\* INSERT to the store (served), how many were answered 200 per table
\* (acked), the table and response status of each request whose INSERT the
\* store failed (failed), and of the latest request answered 200 its ticket,
\* its table, the row count of the table at the response, and the fate and id
\* of its row (newest).
NoLog ==
    [served |-> 0,
     acked |-> [t \in Tables |-> 0],
     failed |-> {},
     newest |-> [req |-> 0, table |-> "none", before |-> 0, fate |-> "none", id |-> 0]]

\* The request runs through validateApiKey and the route handler to its
\* response, in one turn of the event loop.
Track ==
    /\ inbox # Null
    /\ LET req == inbox[1]
           out == IF validateApiKey(req.apiKey)
                  THEN trackHandler(req.type, req.data)
                  ELSE [status |-> 401, stmt |-> Null]
           n == log.served + 1
       IN  /\ resp' = Some(out.status)
           /\ IF out.stmt = Null
              THEN /\ queue' = queue
                   /\ log' = log
              ELSE /\ queue' = Append(queue, [table |-> out.stmt[1].table,
                                              value |-> out.stmt[1].value,
                                              status |-> out.status,
                                              req |-> n])
                   /\ log' = [log EXCEPT
                                !.served = n,
                                !.acked[out.stmt[1].table] =
                                    IF out.status = 200 THEN @ + 1 ELSE @,
                                !.newest =
                                    IF out.status = 200
                                    THEN [req |-> n, table |-> out.stmt[1].table,
                                          before |-> Len(db[out.stmt[1].table]),
                                          fate |-> "queued", id |-> 0]
                                    ELSE @]
    /\ inbox' = Null
    /\ UNCHANGED <<db, now, dash, hist, list>>

\* The client has the response.
TrackClose ==
    /\ resp # Null
    /\ resp' = Null
    /\ UNCHANGED <<db, queue, now, inbox, log, dash, hist, list>>

\* ------------------------------------------------------------- reference summary

\* The sum of the load times of the rows with indices in L: each value times
\* the number of rows that carry it.
RECURSIVE SumLoad(_, _, _)
SumLoad(rows, L, values) ==
    IF values = {} THEN 0
    ELSE LET v == CHOOSE x \in values : TRUE
         IN  v * Cardinality({i \in L : rows[i].load_time[1] = v})
               + SumLoad(rows, L, values \ {v})

\* What the three dashboard sub-queries are to return on store state d at
\* clock value c, stated on sets of rows.
Summary(d, c) ==
    LET P == {i \in DOMAIN d["performance_metrics"] :
                 Today(d["performance_metrics"][i].timestamp, c)}
        L == {i \in P : d["performance_metrics"][i].load_time # Null}
        F == {i \in DOMAIN d["form_submissions"] :
                 Today(d["form_submissions"][i].timestamp, c)}
        U == {i \in DOMAIN d["user_analytics"] :
                 /\ Today(d["user_analytics"][i].timestamp, c)
                 /\ d["user_analytics"][i].session_id # Null}
    IN  [performance |->
            [total |-> Cardinality(P),
             avg_load_time |->
                IF L = {} THEN Null
                ELSE Some(Ratio(SumLoad(d["performance_metrics"], L,
                                        {d["performance_metrics"][i].load_time[1] : i \in L}),
                                Cardinality(L)))],
         forms |-> [total |-> Cardinality(F)],
         users |-> [unique_sessions |->
                      Cardinality({d["user_analytics"][i].session_id[1] : i \in U})]]

InFlight == {"perf", "forms", "users"}

\* The summaries of the store since the dashboard request arrived, a new one
\* whenever the summary changes.
Seen(h, summary) == IF h[Len(h)] = summary THEN h ELSE Append(h, summary)

\* ------------------------------------------------------------- the store runs an INSERT

\* The event loop is free: no request is being handled and no response is
\* waiting to be collected.
Free == inbox = Null /\ resp = Null /\ dash.pc # "done" /\ list.pc # "done"

\* The store runs the i-th statement in flight on its own thread: it appends
\* the row (ok) or fails (~ok).  db.run was given no callback, so the handler
\* learns of neither.
ExecInsert(i, ok) ==
    /\ Free
    /\ i \in 1..Len(queue)
    /\ LET s == queue[i]
           id == NextId(db[s.table])
       IN  /\ queue' = SubSeq(queue, 1, i - 1) \o SubSeq(queue, i + 1, Len(queue))
           /\ IF ok
              THEN /\ db' = [db EXCEPT ![s.table] =
                                Append(@, NewRow(s.table, id, s.value, now))]
                   /\ log' = IF s.req = log.newest.req
                             THEN [log EXCEPT !.newest.fate = "written",
                                              !.newest.id = id]
                             ELSE log
              ELSE /\ db' = db
                   /\ log' = [log EXCEPT
                                !.failed = @ \cup {[table |-> s.table, status |-> s.status]},
                                !.newest.fate =
                                    IF s.req = log.newest.req THEN "failed" ELSE @]
    /\ hist' = IF dash.pc \in InFlight THEN Seen(hist, Summary(db', now)) ELSE hist
    /\ UNCHANGED <<now, inbox, resp, dash, list>>

\* The server clock advances by one second.
Tick ==
    /\ Free
    /\ now < MaxClock
    /\ now' = now + 1
    /\ hist' = IF dash.pc \in InFlight THEN Seen(hist, Summary(db, now')) ELSE hist
    /\ UNCHANGED <<db, queue, inbox, resp, log, dash, list>>

\* ------------------------------------------------------------- GET /api/dashboard

NoStats == [performance |-> Null, forms |-> Null, users |-> Null]

IdleDash == [pc |-> "idle", stats |-> NoStats, sent |-> <<>>, err |-> FALSE]

\* The handler: const stats = {} and the first db.get is handed to the store.
DashboardRequest ==
    /\ Free
    /\ dash.pc = "idle"
    /\ list.pc = "idle"
    /\ dash' = [IdleDash EXCEPT !.pc = "perf"]
    /\ hist' = <<Summary(db, now)>>
    /\ UNCHANGED <<db, queue, now, inbox, resp, log, list>>

\* The store runs the performance query and calls (err, perfRow) => ...
DashPerf(err) ==
    /\ dash.pc = "perf"
    /\ dash' = IF err
               THEN [dash EXCEPT !.pc = "done", !.err = TRUE,
                                 !.sent = Append(@, [status |-> 500, body |-> Null])]
               ELSE [dash EXCEPT !.pc = "forms",
                       !.stats.performance =
                           Some(PerfQuery(db["performance_metrics"], now))]
    /\ UNCHANGED <<db, queue, now, inbox, resp, log, hist, list>>

\* DashForms whose error branch does not return: it answers 500 and goes on
\* to the session query with stats.forms undefined.
DashForms_NoReturn(err) ==
    /\ dash.pc = "forms"
    /\ dash' = IF err
               THEN [dash EXCEPT !.pc = "users", !.err = TRUE,
                                 !.sent = Append(@, [status |-> 500, body |-> Null])]
               ELSE [dash EXCEPT !.pc = "users",
                       !.stats.forms = Some(FormQuery(db["form_submissions"], now))]
    /\ UNCHANGED <<db, queue, now, inbox, resp, log, hist, list>>

\* The store runs the form query and calls (err, formRow) => ...
DashForms(err) ==
    /\ dash.pc = "forms"
    /\ dash' = IF err
               THEN [dash EXCEPT !.pc = "done", !.err = TRUE,
                                 !.sent = Append(@, [status |-> 500, body |-> Null])]
               ELSE [dash EXCEPT !.pc = "users",
                       !.stats.forms = Some(FormQuery(db["form_submissions"], now))]
    /\ UNCHANGED <<db, queue, now, inbox, resp, log, hist, list>>

\* The store runs the session query and calls (err, userRow) => ..., which
\* sends the summary.
DashUsers(err) ==
    /\ dash.pc = "users"
    /\ dash' = IF err
               THEN [dash EXCEPT !.pc = "done", !.err = TRUE,
                                 !.sent = Append(@, [status |-> 500, body |-> Null])]
               ELSE LET stats == [dash.stats EXCEPT
                                    !.users = Some(UserQuery(db["user_analytics"], now))]
                    IN  [dash EXCEPT !.pc = "done", !.stats = stats,
                            !.sent = Append(@, [status |-> 200, body |-> Some(stats)])]
    /\ UNCHANGED <<db, queue, now, inbox, resp, log, hist, list>>

\* The client has collected the response.
DashClose ==
    /\ dash.pc = "done"
    /\ dash' = IdleDash
    /\ hist' = <<>>
    /\ UNCHANGED <<db, queue, now, inbox, resp, log, list>>

\* ------------------------------------------------------------- list endpoints

IdleList == [pc |-> "idle", table |-> "none", status |-> 0, rows |-> <<>>]

\* GET /api/performance | /api/seo | /api/forms | /api/users: db.all is handed
\* to the store.
ListRequest(table) ==
    /\ Free
    /\ list.pc = "idle"
    /\ dash.pc = "idle"
    /\ list' = [IdleList EXCEPT !.pc = "pending", !.table = table]
    /\ UNCHANGED <<db, queue, now, inbox, resp, log, dash, hist>>

\* The store runs the query and calls (err, rows) => ...
ListExec(err, tie) ==
    /\ list.pc = "pending"
    /\ list' = IF err
               THEN [list EXCEPT !.pc = "done", !.status = 500]
               ELSE [list EXCEPT !.pc = "done", !.status = 200,
                                 !.rows = ListQuery(db[list.table], tie)]
    /\ UNCHANGED <<db, queue, now, inbox, resp, log, dash, hist>>

\* The client has collected the response.
ListClose ==
    /\ list.pc = "done"
    /\ list' = IdleList
    /\ UNCHANGED <<db, queue, now, inbox, resp, log, dash, hist>>

\* ------------------------------------------------------------- GET /api/health

\* Answers a constant body and the current time; reads and writes no state.
Health ==
    /\ Free
    /\ UNCHANGED vars

\* ------------------------------------------------------------- specifications

\* After startup: CREATE TABLE IF NOT EXISTS on a new database file.
Init ==
    /\ db = [t \in Tables |-> <<>>]
    /\ queue = <<>>
    /\ now = 0
    /\ inbox = Null
    /\ resp = Null
    /\ log = NoLog
    /\ dash = IdleDash
    /\ hist = <<>>
    /\ list = IdleList

PrefillValue(table) ==
    CASE table = "performance_metrics" -> Some(2)
      [] table = "seo_metrics" -> Some("Home")
      [] table = "form_submissions" -> Some("contact")
      [] table = "user_analytics" -> Some("s1")

\* A server whose database file already holds Prefill rows (or one less) in
\* one table, written during the last two seconds by earlier track requests,
\* with one more INSERT and one clock second to go.
InitList ==
    /\ \E t \in Tables, n \in {Prefill - 1, Prefill} :
          /\ db = [u \in Tables |->
                     IF u = t
                     THEN [i \in 1..n |->
                             NewRow(t, i, PrefillValue(t),
                                    IF 2 * i <= n THEN MaxClock - 2
                                                  ELSE MaxClock - 1)]
                     ELSE <<>>]
          /\ log = [served |-> MaxTrack - 1,
                    acked |-> [u \in Tables |-> IF u = t THEN n ELSE 0],
                    failed |-> {},
                    newest |-> [req |-> MaxTrack - 1, table |-> t, before |-> n - 1,
                                fate |-> "written", id |-> n]]
    /\ queue = <<>>
    /\ now = MaxClock - 1
    /\ inbox = Null
    /\ resp = Null
    /\ dash = IdleDash
    /\ hist = <<>>
    /\ list = IdleList

Next ==
    \/ \E k \in ApiKeys, ty \in Types, d \in Payloads : Arrive(k, ty, d)
    \/ Track
    \/ TrackClose
    \/ \E i \in 1..MaxTrack, ok \in BOOLEAN : ExecInsert(i, ok)
    \/ Tick
    \/ DashboardRequest
    \/ \E err \in BOOLEAN : DashPerf(err)
    \/ \E err \in BOOLEAN : DashForms(err)
    \/ \E err \in BOOLEAN : DashUsers(err)
    \/ DashClose
    \/ \E t \in Tables : ListRequest(t)
    \/ \E err \in BOOLEAN, tie \in TieOrders : ListExec(err, tie)
    \/ ListClose
    \/ Health

Spec == Init /\ [][Next]_vars

SpecList == InitList /\ [][Next]_vars

\* ------------------------------------------------------------- properties

AllowedKeys == {Some("dvl-media-main"), Some("dvl-media-dev")}

KnownTypes == {Some("performance"), Some("seo"), Some("form"), Some("user")}

\* The step is the handling of the request in inbox.
Handled == inbox # Null /\ inbox' = Null

\* The status of the response the step sends.
Answer == resp'[1]

\* C1: a POST /api/track request whose X-API-Key header is missing or is not
\* one of the two allowlisted keys is answered 401, for any type and any
\* data, and neither a table nor the set of INSERTs in flight changes.
C1_UnauthorizedNoWrite ==
    [][(Handled /\ inbox[1].apiKey \notin AllowedKeys)
         => /\ Answer = 401
            /\ db' = db
            /\ queue' = queue]_vars

\* A request was answered 401 after a row had been written.
C1_Witness ==
    /\ resp = Some(401)
    /\ \E t \in Tables : db[t] # <<>>

\* C2: a request with a valid key whose type is absent or is none of
\* performance, seo, form, user is answered 400 and the row count of every
\* table stays as it was (no INSERT is issued either).
C2_UnknownTypeRejected ==
    [][(Handled /\ inbox[1].apiKey \in AllowedKeys /\ inbox[1].type \notin KnownTypes)
         => /\ Answer = 400
            /\ \A t \in Tables : Len(db'[t]) = Len(db[t])
            /\ queue' = queue]_vars

\* A request was answered 400 after a row had been written.
C2_Witness ==
    /\ resp = Some(400)
    /\ \E t \in Tables : db[t] # <<>>

\* C3: after a submit was acknowledged with 200 and its row written, a list
\* of that kind requested afterwards returns the new row as its first element
\* and the table holds exactly one row more than before the submit, also
\* when earlier rows carry the same timestamp as the new row.
C3_NewRowFirst ==
    (/\ list.pc = "done"
     /\ list.status = 200
     /\ queue = <<>>
     /\ log.newest.fate = "written"
     /\ log.newest.table = list.table)
    => /\ list.rows # <<>>
       /\ list.rows[1].id = log.newest.id
       /\ Len(db[list.table]) = log.newest.before + 1

\* C4: a request whose INSERT the store fails to perform is answered 500 and
\* never 200; 200 is sent only for events whose row was written.
C4_StoreFailureIs500 ==
    \A f \in log.failed : f.status = 500 /\ f.status # 200

\* The distinct non-NULL session ids among the user rows of the current day.
TodaySessions(rows, clock) ==
    {rows[i].session_id[1] :
        i \in {j \in DOMAIN rows : /\ Today(rows[j].timestamp, clock)
                                   /\ rows[j].session_id # Null}}

C6_ListBounded ==
    (list.pc = "done" /\ list.status = 200)
    => LET tbl == db[list.table]
           rows == list.rows
           ids == {rows[i].id : i \in DOMAIN rows}
       IN  /\ Len(rows) = (IF Len(tbl) < 100 THEN Len(tbl) ELSE 100)
           /\ Len(rows) <= 100
           /\ \A i \in 1..(Len(rows) - 1) : rows[i].timestamp >= rows[i + 1].timestamp
           /\ Cardinality(ids) = Len(rows)
           /\ \A i \in DOMAIN rows :
                 rows[i].id \in DOMAIN tbl /\ tbl[rows[i].id] = rows[i]
           /\ \A j \in DOMAIN tbl :
                 tbl[j].id \notin ids
                   => \A i \in DOMAIN rows : tbl[j].timestamp <= rows[i].timestamp

\* A list of a table of more than 100 rows returned 100 rows.
C6_Witness ==
    /\ list.pc = "done"
    /\ list.status = 200
    /\ Len(db[list.table]) > 100
    /\ Len(list.rows) = 100

\* C7: a dashboard request sends at most one response; when a sub-query
\* failed it is a 500 without a summary and the request ends there; a
\* summary is sent only when no sub-query failed and then it holds all of
\* performance, forms and users.
C7_DashboardAllOrNothing ==
    /\ Len(dash.sent) <= 1
    /\ dash.pc = "done" => Len(dash.sent) = 1
    /\ dash.err => /\ dash.pc = "done"
                   /\ dash.sent = <<[status |-> 500, body |-> Null]>>
    /\ \A i \in DOMAIN dash.sent :
          dash.sent[i].status = 200
            => /\ ~dash.err
               /\ dash.sent[i].body # Null
               /\ dash.sent[i].body[1].performance # Null
               /\ dash.sent[i].body[1].forms # Null
               /\ dash.sent[i].body[1].users # Null

\* A sub-query failed after the performance query had succeeded.
C7_Witness ==
    /\ dash.err
    /\ dash.stats.performance # Null

\* C8: the store is append-only: a row stays in its table unchanged, each
\* accepted submit of kind k adds exactly one row to table k and none to
\* another table, and no read endpoint changes a table.  Once no INSERT is in
\* flight each table holds one row per submit acknowledged for it.
C8_AppendOnly ==
    /\ [][\A t \in Tables :
             /\ Len(db[t]) <= Len(db'[t])
             /\ SubSeq(db'[t], 1, Len(db[t])) = db[t]]_vars
    /\ [](queue = <<>>
            => \A t \in Tables :
                 Len(db[t]) = log.acked[t])

\* C9: a request with a valid key and a recognized type whose data is
\* missing or is not a mapping is answered 400 and issues no INSERT.
C9_UnusablePayloadRejected ==
    [][(/\ Handled
        /\ inbox[1].apiKey \in AllowedKeys
        /\ inbox[1].type \in KnownTypes
        /\ inbox[1].data.shape # "mapping")
         => /\ Answer = 400
            /\ db' = db
            /\ queue' = queue]_vars

\* C10: every value of a summary is its sub-query on the store at an instant
\* between the arrival of the request and the response, the instants being
\* ordered performance <= forms <= users, with the performance count and the
\* average load time from one instant.
C10_SummaryFromOrderedInstants ==
    (dash.pc = "done" /\ ~dash.err)
    => \E i, j, k \in DOMAIN hist :
          /\ i <= j
          /\ j <= k
          /\ dash.stats.performance = Some(hist[i].performance)
          /\ dash.stats.forms = Some(hist[j].forms)
          /\ dash.stats.users = Some(hist[k].users)

\* A summary was sent that is the summary of no single instant of its request.
C10_Witness ==
    /\ dash.pc = "done"
    /\ ~dash.err
    /\ \A i \in DOMAIN hist :
          \/ dash.stats.performance # Some(hist[i].performance)
          \/ dash.stats.forms # Some(hist[i].forms)
          \/ dash.stats.users # Some(hist[i].users)

====
